---------------------------- MODULE Spec2Model ----------------------------
(***************************************************************************)
(* Model of words-hk-parse: the reading aligner (utils/cantonese.ts) and   *)
(* the entry parser (parseEntry, parseHeadwords, parseTags, parseSense,    *)
(* parseLanguageData).                                                     *)
(*                                                                         *)
(* A JavaScript string is modelled as a sequence of characters.  A         *)
(* character is a one-character TLA+ string; a code point outside ASCII is *)
(* written by its name, "U+4F60".  The parsers are pure functions: each is *)
(* an operator computed the way the code computes it, and each has a       *)
(* specification whose initial states draw the call's arguments from       *)
(* bounded sets and whose action performs the call.                        *)
(***************************************************************************)
EXTENDS Integers, Sequences, FiniteSets, TLC

VARIABLES pc, args, ret

vars == <<pc, args, ret>>

(***************************************************************************)
(* Bounds of the model.                                                    *)
(***************************************************************************)
MaxTextLen == 2
MaxReadLen == 3
MaxBlockLines == 3
MaxGroups == 2
MaxHeadwordLen == 4
MaxBodyLines == 3

(***************************************************************************)
(* Generic helpers for JavaScript strings and arrays.                      *)
(***************************************************************************)
Max(a, b) == IF a > b THEN a ELSE b

Min(a, b) == IF a < b THEN a ELSE b

\* All sequences over S of length at most n.
SeqsUpTo(S, n) == UNION {[1..k -> S] : k \in 0..n}

\* The value of a call that has not returned.
NoRet == [ok |-> FALSE, error |-> "pending"]

\* JavaScript's undefined, as read from an array past its end.  It is not a
\* string: no character of the model is "undefined".
Undefined == <<"undefined">>

\* arr[idx] of a JavaScript array (0-based), undefined past the end.
At(arr, idx) == IF idx + 1 \in DOMAIN arr THEN arr[idx + 1] ELSE Undefined

\* !!s for a string-or-undefined value.
Truthy(s) == s # Undefined /\ s # <<>>

\* Code points String.prototype.trim removes (WhiteSpace and LineTerminator).
WhiteSpace == {" ", "\t", "\n", "\r", "U+00A0", "U+3000", "U+FEFF"}

RECURSIVE TrimStart(_)
TrimStart(s) ==
  IF s = <<>> THEN <<>>
  ELSE IF Head(s) \in WhiteSpace THEN TrimStart(Tail(s)) ELSE s

RECURSIVE TrimEnd(_)
TrimEnd(s) ==
  IF s = <<>> THEN <<>>
  ELSE IF s[Len(s)] \in WhiteSpace THEN TrimEnd(SubSeq(s, 1, Len(s) - 1)) ELSE s

\* String.prototype.trim
Trim(s) == TrimEnd(TrimStart(s))

\* seq.filter(x => x) for an array of strings
RECURSIVE FilterNonEmpty(_)
FilterNonEmpty(arr) ==
  IF arr = <<>> THEN <<>>
  ELSE IF Head(arr) # <<>> THEN <<Head(arr)>> \o FilterNonEmpty(Tail(arr))
       ELSE FilterNonEmpty(Tail(arr))

\* Whether pat occurs in s at position k (1-based).
OccursAt(s, pat, k) ==
  /\ k >= 1
  /\ k + Len(pat) - 1 <= Len(s)
  /\ SubSeq(s, k, k + Len(pat) - 1) = pat

\* String.prototype.indexOf(pat), 1-based; 0 when pat does not occur.
IndexOf(s, pat) ==
  IF \E k \in 1..Len(s) + 1 : OccursAt(s, pat, k)
  THEN CHOOSE k \in 1..Len(s) + 1 :
          /\ OccursAt(s, pat, k)
          /\ \A j \in 1..k - 1 : ~OccursAt(s, pat, j)
  ELSE 0

\* String.prototype.includes(pat)
Includes(s, pat) == IndexOf(s, pat) # 0

\* String.prototype.startsWith(pat)
StartsWith(s, pat) == OccursAt(s, pat, 1)

\* String.prototype.split(sep) for a non-empty separator string.
RECURSIVE SplitOn(_, _)
SplitOn(s, sep) ==
  LET k == IndexOf(s, sep)
  IN  IF k = 0 THEN <<s>>
      ELSE <<SubSeq(s, 1, k - 1)>> \o SplitOn(SubSeq(s, k + Len(sep), Len(s)), sep)

\* String.prototype.replace(pat, rep) for a string pattern: the first
\* occurrence only.
ReplaceFirst(s, pat, rep) ==
  LET k == IndexOf(s, pat)
  IN  IF k = 0 THEN s
      ELSE SubSeq(s, 1, k - 1) \o rep \o SubSeq(s, k + Len(pat), Len(s))

\* String.prototype.slice(from, to) with 0-based indices, a negative index
\* counting from the end.
Slice(s, from, to) ==
  LET norm(x) == IF x < 0 THEN Max(Len(s) + x, 0) ELSE Min(x, Len(s))
  IN  SubSeq(s, norm(from) + 1, norm(to))

\* The line terminators at which ^ and $ of a multiline regular expression
\* match.
LineTerminators == {"\n", "\r", "U+2028", "U+2029"}

\* Whether the multiline regular expression /^pat$/ matches s at position k.
LineOccursAt(s, pat, k) ==
  /\ OccursAt(s, pat, k)
  /\ (k = 1 \/ s[k - 1] \in LineTerminators)
  /\ (k + Len(pat) - 1 = Len(s) \/ s[k + Len(pat)] \in LineTerminators)

\* String.prototype.split(/^pat$/gm) for a literal, non-empty pat.
RECURSIVE SplitOnLine(_, _)
SplitOnLine(s, pat) ==
  IF \E k \in 1..Len(s) : LineOccursAt(s, pat, k)
  THEN LET k == CHOOSE k \in 1..Len(s) :
                  /\ LineOccursAt(s, pat, k)
                  /\ \A j \in 1..k - 1 : ~LineOccursAt(s, pat, j)
       IN  <<SubSeq(s, 1, k - 1)>>
             \o SplitOnLine(SubSeq(s, k + Len(pat), Len(s)), pat)
  ELSE <<s>>

\* String.prototype.replace(/[()]/g, '')
RECURSIVE StripParens(_)
StripParens(s) ==
  IF s = <<>> THEN <<>>
  ELSE IF Head(s) \in {"(", ")"} THEN StripParens(Tail(s))
       ELSE <<Head(s)>> \o StripParens(Tail(s))

\* Array.prototype.join(sep)
RECURSIVE Join(_, _)
Join(arr, sep) ==
  IF arr = <<>> THEN <<>>
  ELSE IF Len(arr) = 1 THEN arr[1]
       ELSE arr[1] \o sep \o Join(Tail(arr), sep)

(***************************************************************************)
(* utils/text: the character classes.                                      *)
(***************************************************************************)
Letters ==
  {"a", "b", "c", "d", "e", "f", "g", "h", "i", "j", "k", "l", "m",
   "n", "o", "p", "q", "r", "s", "t", "u", "v", "w", "x", "y", "z",
   "A", "B", "C", "D", "E", "F", "G", "H", "I", "J", "K", "L", "M",
   "N", "O", "P", "Q", "R", "S", "T", "U", "V", "W", "X", "Y", "Z"}

Digits == {"0", "1", "2", "3", "4", "5", "6", "7", "8", "9"}

\* The code points of the model that lie in the CJK Unified Ideographs blocks.
HanziChars == {"U+4F60", "U+597D", "U+98F2", "U+8336"}

\* The punctuations array, in source order (it lists two marks twice).
punctuations ==
  <<"U+FF0C", ",", "U+3002", ".", "U+FF1F", "?", "U+FF01", "!",
    "U+FF1B", ";", "U+FF1A", ":", "U+3001", ",", "U+FF0C", "U+22EF">>

\* punctuations.includes(x) for a one-character string x
PunctuationsIncludes(char) == \E k \in DOMAIN punctuations : punctuations[k] = char

\* RegExp.prototype.test converts its argument to a string: undefined is
\* tested as the text "undefined", which holds letters and no ideograph.
isHanzi(text) ==
  IF text = Undefined THEN FALSE
  ELSE \E k \in DOMAIN text : text[k] \in HanziChars

isJyuutping(text) ==
  IF text = Undefined THEN TRUE
  ELSE \E k \in DOMAIN text : text[k] \in Letters \cup Digits

\* punctuations.includes(text): the whole token is one of the marks.
isPunctuation(text) ==
  text # Undefined /\ Len(text) = 1 /\ PunctuationsIncludes(text[1])

(***************************************************************************)
(* utils/cantonese: splitString                                            *)
(***************************************************************************)
\* Mutant: a run of letters and digits is never cut.
splitStepNoCut(st, char) ==
  IF char \in Letters \cup Digits
  THEN [resultArray |-> st.resultArray, current |-> Append(st.current, char)]
  ELSE IF st.current # <<>>
       THEN [resultArray |-> Append(Append(st.resultArray, st.current), <<char>>),
             current |-> <<>>]
       ELSE [resultArray |-> Append(st.resultArray, <<char>>),
             current |-> <<>>]

\* One pass of the for-of loop: st = [resultArray, current] before the
\* character, the value is the pair after it.
splitStep(st, char) ==
  IF char \in Letters \cup Digits
  THEN LET isAlphabetical == char \in Letters
           isPreviousAlphabetical ==
             st.current # <<>> /\ st.current[Len(st.current)] \in Letters
           cut == st.current # <<>> /\ isAlphabetical /\ ~isPreviousAlphabetical
       IN  IF cut
           THEN [resultArray |-> Append(st.resultArray, st.current),
                 current |-> <<char>>]
           ELSE [resultArray |-> st.resultArray,
                 current |-> Append(st.current, char)]
  ELSE \* a punctuation mark and any other character are handled alike
       IF st.current # <<>>
       THEN [resultArray |-> Append(Append(st.resultArray, st.current), <<char>>),
             current |-> <<>>]
       ELSE [resultArray |-> Append(st.resultArray, <<char>>),
             current |-> <<>>]

RECURSIVE splitLoop(_, _)
splitLoop(st, input) ==
  IF input = <<>> THEN st
  ELSE splitLoop(splitStep(st, Head(input)), Tail(input))

splitString(input) ==
  LET st == splitLoop([resultArray |-> <<>>, current |-> <<>>], input)
      resultArray == IF st.current # <<>>
                     THEN Append(st.resultArray, st.current)
                     ELSE st.resultArray
      trimmed == [k \in DOMAIN resultArray |-> Trim(resultArray[k])]
  IN  FilterNonEmpty(trimmed)

(***************************************************************************)
(* utils/cantonese: parseCantoneseReadings                                 *)
(***************************************************************************)
\* Mutant: the second branch does not ask whether the reading is undefined.
alignBranchNoUndefined(text, reading) ==
  LET isTextHanzi == isHanzi(text)
      isTextAlphanumeric == isJyuutping(text)
      isTextPunctuation == isPunctuation(text)
      isReadingJyutping == isJyuutping(reading)
      isReadingPunctuation == isPunctuation(reading)
  IN  IF /\ Truthy(text)
         /\ Truthy(reading)
         /\ \/ (isTextHanzi /\ isReadingJyutping)
            \/ (isTextAlphanumeric /\ isReadingJyutping)
      THEN "both"
      ELSE IF /\ Truthy(text)
              /\ \/ (isTextPunctuation /\ isReadingJyutping)
                 \/ (~isTextAlphanumeric /\ ~isTextHanzi /\ isReadingJyutping)
      THEN "textOnly"
      ELSE IF /\ Truthy(text)
              /\ Truthy(reading)
              /\ \/ (isTextPunctuation /\ isReadingPunctuation)
                 \/ (~isTextAlphanumeric /\ ~isTextHanzi /\ ~isReadingJyutping)
      THEN "drop"
      ELSE "throw"

\* Which branch of the loop body is taken for a text and a reading token:
\* "both" (pair, both cursors advance), "textOnly" (empty reading, the text
\* cursor advances), "drop" (empty reading, both cursors advance), "throw".
alignBranch(text, reading) ==
  LET isTextHanzi == isHanzi(text)
      isTextAlphanumeric == isJyuutping(text)
      isTextPunctuation == isPunctuation(text)
      isReadingJyutping == isJyuutping(reading)
      isReadingPunctuation == isPunctuation(reading)
  IN  IF /\ Truthy(text)
         /\ Truthy(reading)
         /\ \/ (isTextHanzi /\ isReadingJyutping)
            \/ (isTextAlphanumeric /\ isReadingJyutping)
      THEN "both"
      ELSE IF /\ Truthy(text)
              /\ \/ (isTextPunctuation /\ isReadingJyutping)
                 \/ (Truthy(text) /\ reading = Undefined)
                 \/ (~isTextAlphanumeric /\ ~isTextHanzi /\ isReadingJyutping)
      THEN "textOnly"
      ELSE IF /\ Truthy(text)
              /\ Truthy(reading)
              /\ \/ (isTextPunctuation /\ isReadingPunctuation)
                 \/ (~isTextAlphanumeric /\ ~isTextHanzi /\ ~isReadingJyutping)
      THEN "drop"
      ELSE "throw"

\* Mutant: the second branch emits the reading it leaves unconsumed.
alignApplyTextOnlyEmits(st, text, reading, branch) ==
  CASE branch = "both" ->
         [i |-> st.i + 1, textIndex |-> st.textIndex + 1,
          readingIndex |-> st.readingIndex + 1,
          resultArray |-> Append(st.resultArray,
                                 [text |-> text, reading |-> reading]),
          thrown |-> FALSE]
    [] branch = "textOnly" ->
         [i |-> st.i + 1, textIndex |-> st.textIndex + 1,
          readingIndex |-> st.readingIndex,
          resultArray |-> Append(st.resultArray,
                                 [text |-> text,
                                  reading |-> IF reading = Undefined
                                              THEN <<>> ELSE reading]),
          thrown |-> FALSE]
    [] branch = "drop" ->
         [i |-> st.i + 1, textIndex |-> st.textIndex + 1,
          readingIndex |-> st.readingIndex + 1,
          resultArray |-> Append(st.resultArray,
                                 [text |-> text, reading |-> <<>>]),
          thrown |-> FALSE]
    [] OTHER -> [st EXCEPT !.thrown = TRUE]

\* The effect of one branch of the loop body on the loop's state
\* st = [i, textIndex, readingIndex, resultArray, thrown].
alignApply(st, text, reading, branch) ==
  CASE branch = "both" ->
         [i |-> st.i + 1, textIndex |-> st.textIndex + 1,
          readingIndex |-> st.readingIndex + 1,
          resultArray |-> Append(st.resultArray,
                                 [text |-> text, reading |-> reading]),
          thrown |-> FALSE]
    [] branch = "textOnly" ->
         [i |-> st.i + 1, textIndex |-> st.textIndex + 1,
          readingIndex |-> st.readingIndex,
          resultArray |-> Append(st.resultArray,
                                 [text |-> text, reading |-> <<>>]),
          thrown |-> FALSE]
    [] branch = "drop" ->
         [i |-> st.i + 1, textIndex |-> st.textIndex + 1,
          readingIndex |-> st.readingIndex + 1,
          resultArray |-> Append(st.resultArray,
                                 [text |-> text, reading |-> <<>>]),
          thrown |-> FALSE]
    [] OTHER -> [st EXCEPT !.thrown = TRUE]

\* Mutant: the third branch consumes both tokens without emitting a pair.
alignStepDropNoPush(st, text, reading) ==
  IF alignBranch(text, reading) = "drop"
  THEN [st EXCEPT !.i = @ + 1, !.textIndex = @ + 1, !.readingIndex = @ + 1]
  ELSE alignApply(st, text, reading, alignBranch(text, reading))

\* Mutant: the second branch advances the reading cursor too.
alignStepTextOnlyConsumes(st, text, reading) ==
  alignApply(st, text, reading,
             IF alignBranch(text, reading) = "textOnly"
             THEN "drop" ELSE alignBranch(text, reading))

\* One iteration of the loop body on the tokens under the cursors: the
\* state after it (thrown when the else branch throws).
alignStep(st, text, reading) ==
  alignApply(st, text, reading, alignBranch(text, reading))

\* Mutant: no check for readings left over.
alignFinishNoCheck(readingsArray, st) ==
  [ok |-> TRUE, error |-> "", value |-> st.resultArray,
   i |-> st.i, textIndex |-> st.textIndex, readingIndex |-> st.readingIndex]

\* The post-condition after the loop: readings left over are an error.  The
\* value is the call's outcome, with the cursors as they stood at its end.
alignFinish(readingsArray, st) ==
  IF st.readingIndex < Len(readingsArray)
  THEN [ok |-> FALSE, error |-> "Unexpected reading", value |-> <<>>,
        i |-> st.i, textIndex |-> st.textIndex, readingIndex |-> st.readingIndex]
  ELSE [ok |-> TRUE, error |-> "", value |-> st.resultArray,
        i |-> st.i, textIndex |-> st.textIndex, readingIndex |-> st.readingIndex]

\* The for loop, from state st on.
RECURSIVE alignLoop(_, _, _)
alignLoop(textArray, readingsArray, st) ==
  IF st.thrown
  THEN [ok |-> FALSE, error |-> "Unexpected text", value |-> <<>>,
        i |-> st.i, textIndex |-> st.textIndex, readingIndex |-> st.readingIndex]
  ELSE IF ~(st.i < Max(Len(textArray), Len(readingsArray)))
  THEN alignFinish(readingsArray, st)
  ELSE alignLoop(textArray, readingsArray,
                 alignStep(st, At(textArray, st.textIndex),
                               At(readingsArray, st.readingIndex)))

parseCantoneseReadings(rawText, readings) ==
  alignLoop(splitString(rawText), splitString(readings),
            [i |-> 0, textIndex |-> 0, readingIndex |-> 0,
             resultArray |-> <<>>, thrown |-> FALSE])

(***************************************************************************)
(* Specification of the aligner: one call on bounded arguments.            *)
(***************************************************************************)
\* The characters the arguments are drawn from, one or two per class the
\* aligner tells apart.  Of a text token it asks whether it holds an
\* ideograph, whether it holds a letter or digit, and whether it is a
\* punctuation mark; of a reading token only the last two.
TextChars == {"U+4F60", "a", ",", " ", "-"}

ReadingChars == {"a", "1", ",", " ", "-"}

InitAlign ==
  /\ pc = "call"
  /\ args \in {[fn |-> "parseCantoneseReadings", rawText |-> t, readings |-> r] :
                 t \in SeqsUpTo(TextChars, MaxTextLen),
                 r \in SeqsUpTo(ReadingChars, MaxReadLen)}
  /\ ret = NoRet

CallParseCantoneseReadings ==
  /\ pc = "call"
  /\ args.fn = "parseCantoneseReadings"
  /\ ret' = parseCantoneseReadings(args.rawText, args.readings)
  /\ pc' = "done"
  /\ UNCHANGED args

NextAlign == CallParseCantoneseReadings

SpecAlign == InitAlign /\ [][NextAlign]_vars

(***************************************************************************)
(* constants: LANGUAGES_DATA                                               *)
(***************************************************************************)
\* The keys of LANGUAGES_DATA (the Language type), in source order.
LanguageCodes ==
  {<<"y", "u", "e">>, <<"e", "n", "g">>, <<"z", "h", "o">>, <<"j", "p", "n">>,
   <<"k", "o", "r">>, <<"v", "i", "e">>, <<"l", "z", "h">>, <<"p", "o", "r">>,
   <<"d", "e", "u">>, <<"f", "r", "a">>, <<"m", "n", "c">>, <<"l", "a", "t">>,
   <<"t", "i", "b">>, <<"U+91CF", "U+8A5E">>}

\* Property names every object literal inherits from Object.prototype; each
\* reads as a truthy value (a function, or the prototype object).
ObjectPrototypeKeys ==
  {<<"c", "o", "n", "s", "t", "r", "u", "c", "t", "o", "r">>,
   <<"t", "o", "S", "t", "r", "i", "n", "g">>,
   <<"v", "a", "l", "u", "e", "O", "f">>,
   <<"_", "_", "p", "r", "o", "t", "o", "_", "_">>}

\* !!LANGUAGES_DATA[key]: a property lookup on an object literal finds the
\* object's own keys and the inherited ones.
LanguagesDataHas(key) == key \in LanguageCodes \cup ObjectPrototypeKeys

(***************************************************************************)
(* entryParser: parseLanguageData                                          *)
(***************************************************************************)
\* The state of the parse: the result so far (a function from the keys set
\* so far to their segment lists), the open language and its buffer, and
\* the error thrown, if any.
LangStart ==
  [languageData |-> <<>>, currentLang |-> <<>>, currentLangData |-> <<>>,
   error |-> ""]

\* !!languageData[key] on the result object {}: the keys set so far, and
\* the inherited ones.
LanguageDataHas(ld, key) == key \in DOMAIN ld \/ key \in ObjectPrototypeKeys

\* Mutant: a segment of a language that already has segments is joined to
\* the last one instead of being appended.
addCurrentLangDataMerging(st) ==
  IF st.currentLang = <<>> THEN st
  ELSE IF st.currentLangData = <<>> THEN st
  ELSE IF st.currentLang \in ObjectPrototypeKeys
  THEN [st EXCEPT !.error = "TypeError"]
  ELSE LET seg == Trim(st.currentLangData)
           ld == IF st.currentLang \in DOMAIN st.languageData
                 THEN [st.languageData EXCEPT ![st.currentLang] =
                         [@ EXCEPT ![Len(@)] = @ \o <<"\n">> \o seg]]
                 ELSE [k \in DOMAIN st.languageData \cup {st.currentLang} |->
                         IF k = st.currentLang THEN <<seg>> ELSE st.languageData[k]]
       IN  [languageData |-> ld, currentLang |-> <<>>,
            currentLangData |-> <<>>, error |-> ""]

\* addCurrentLangData()
addCurrentLangData(st) ==
  IF st.currentLang = <<>> THEN st
  ELSE IF st.currentLangData = <<>> THEN st
  ELSE IF st.currentLang \in ObjectPrototypeKeys
       \* languageData[currentLang] is the inherited value: it is truthy, no
       \* array is stored, and it has no push method
  THEN [st EXCEPT !.error = "TypeError"]
  ELSE LET seg == Trim(st.currentLangData)
           ld == IF st.currentLang \in DOMAIN st.languageData
                 THEN [st.languageData EXCEPT ![st.currentLang] = Append(@, seg)]
                 ELSE [k \in DOMAIN st.languageData \cup {st.currentLang} |->
                         IF k = st.currentLang THEN <<seg>> ELSE st.languageData[k]]
       IN  [languageData |-> ld, currentLang |-> <<>>,
            currentLangData |-> <<>>, error |-> ""]

\* Mutant: a continuation line is appended as it is, not trimmed.
langLineUntrimmed(st, line) ==
  LET matchedLang == SplitOn(line, <<":">>)[1]
  IN  IF ~Includes(line, <<":">>)
      THEN [st EXCEPT !.currentLangData = @ \o <<"\n">> \o line]
      ELSE IF ~LanguagesDataHas(matchedLang)
      THEN [st EXCEPT !.error = "ParseError: Invalid language"]
      ELSE LET flushed == addCurrentLangData(st)
           IN  IF flushed.error # "" THEN flushed
               ELSE [flushed EXCEPT
                       !.currentLang = matchedLang,
                       !.currentLangData =
                          Trim(ReplaceFirst(line, matchedLang \o <<":">>, <<>>))]

\* The body of the loop over the lines, for one line.
langLine(st, line) ==
  LET matchedLang == SplitOn(line, <<":">>)[1]
  IN  IF ~Includes(line, <<":">>)
      THEN [st EXCEPT !.currentLangData = @ \o <<"\n">> \o Trim(line)]
      ELSE IF ~LanguagesDataHas(matchedLang)
      THEN [st EXCEPT !.error = "ParseError: Invalid language"]
      ELSE LET flushed == addCurrentLangData(st)
           IN  IF flushed.error # "" THEN flushed
               ELSE [flushed EXCEPT
                       !.currentLang = matchedLang,
                       !.currentLangData =
                          Trim(ReplaceFirst(line, matchedLang \o <<":">>, <<>>))]

RECURSIVE langLoop(_, _)
langLoop(st, lines) ==
  IF st.error # "" THEN st
  ELSE IF lines = <<>> THEN st
  ELSE langLoop(langLine(st, Head(lines)), Tail(lines))

parseLanguageData(text) ==
  LET lines == SplitOn(text, <<"\n">>)
      looped == langLoop(LangStart, lines)
      st == IF looped.error # "" THEN looped ELSE addCurrentLangData(looped)
  IN  IF st.error # ""
      THEN [ok |-> FALSE, error |-> st.error, value |-> <<>>]
      ELSE [ok |-> TRUE, error |-> "", value |-> st.languageData]

(***************************************************************************)
(* entryParser: parseHeadwords                                             *)
(***************************************************************************)
\* The callback of map, for one comma-separated group.  The rest pattern
\* [text, ...readings] always binds readings to an array, and an array is
\* truthy even when empty: !readings is FALSE.
headwordOf(headword) ==
  LET parts == SplitOn(headword, <<":">>)
      text == parts[1]
      readings == Tail(parts)
      notReadings == FALSE
  IN  IF text = <<>> \/ notReadings
      THEN [ok |-> FALSE, error |-> "ParseError: Invalid headword"]
      ELSE [ok |-> TRUE, error |-> "", text |-> text, readings |-> readings]

parseHeadwords(headwordString) ==
  LET groups == SplitOn(headwordString, <<",">>)
      mapped == [k \in DOMAIN groups |-> headwordOf(groups[k])]
  IN  IF \E k \in DOMAIN mapped : ~mapped[k].ok
      THEN [ok |-> FALSE, error |-> "ParseError: Invalid headword", value |-> <<>>]
      ELSE [ok |-> TRUE, error |-> "",
            value |-> [k \in DOMAIN mapped |->
                         [text |-> mapped[k].text, readings |-> mapped[k].readings]]]

(***************************************************************************)
(* entryParser: parseTags                                                  *)
(***************************************************************************)
\* The literal the first line must start with.
PosMarker == <<"(", "p", "o", "s", ":">>

\* Mutant: the fragment is cut at its last colon.
tagOfLastColon(tag) ==
  LET stripped == StripParens(tag)
      colons == {k \in DOMAIN stripped : stripped[k] = ":"}
      colonIndex == IF colons = {} THEN -1
                    ELSE (CHOOSE k \in colons : \A j \in colons : j <= k) - 1
  IN  [name |-> Trim(Slice(stripped, 0, colonIndex)),
       value |-> Trim(Slice(stripped, colonIndex + 1, Len(stripped)))]

\* The callback of map, for one fragment between ")(" separators.
tagOf(tag) ==
  LET stripped == StripParens(tag)
      colonIndex == IndexOf(stripped, <<":">>) - 1
  IN  [name |-> Trim(Slice(stripped, 0, colonIndex)),
       value |-> Trim(Slice(stripped, colonIndex + 1, Len(stripped)))]

\* Mutant: the part-of-speech marker is not checked.
parseTagsNoMarker(entryLines) ==
  IF entryLines = <<>>
  THEN [ok |-> FALSE, error |-> "TypeError", value |-> <<>>, rest |-> entryLines]
  ELSE LET frags == SplitOn(Head(entryLines), <<")", "(">>)
       IN  [ok |-> TRUE, error |-> "",
            value |-> [k \in DOMAIN frags |-> tagOf(frags[k])],
            rest |-> Tail(entryLines)]

\* Mutant: the first line is read but not shifted off entryLines.
parseTagsNoShift(entryLines) ==
  IF entryLines = <<>>
  THEN [ok |-> FALSE, error |-> "TypeError", value |-> <<>>, rest |-> entryLines]
  ELSE IF ~StartsWith(entryLines[1], PosMarker)
  THEN [ok |-> FALSE, error |-> "ParseError: Entry does not start with (pos:)",
        value |-> <<>>, rest |-> entryLines]
  ELSE LET frags == SplitOn(Head(entryLines), <<")", "(">>)
       IN  [ok |-> TRUE, error |-> "",
            value |-> [k \in DOMAIN frags |-> tagOf(frags[k])],
            rest |-> entryLines]

\* parseTags: the tags, and entryLines as the call leaves it (rest): the
\* first line is shifted off the caller's array.
parseTags(entryLines) ==
  IF entryLines = <<>>
  \* entryLines[0] is undefined: calling startsWith on it is a TypeError
  THEN [ok |-> FALSE, error |-> "TypeError", value |-> <<>>, rest |-> entryLines]
  ELSE IF ~StartsWith(entryLines[1], PosMarker)
  THEN [ok |-> FALSE, error |-> "ParseError: Entry does not start with (pos:)",
        value |-> <<>>, rest |-> entryLines]
  ELSE LET firstLine == Head(entryLines)
           rest == Tail(entryLines)
           frags == SplitOn(firstLine, <<")", "(">>)
           tags == [k \in DOMAIN frags |-> tagOf(frags[k])]
       IN  IF firstLine = <<>>
           THEN [ok |-> FALSE, error |-> "ParseError: Entry is empty",
                 value |-> <<>>, rest |-> rest]
           ELSE IF Len(tags) = 0
           THEN [ok |-> FALSE, error |-> "ParseError: No tags found",
                 value |-> <<>>, rest |-> rest]
           ELSE [ok |-> TRUE, error |-> "", value |-> tags, rest |-> rest]

(***************************************************************************)
(* entryParser: parseSense                                                 *)
(***************************************************************************)
ExplanationMarker ==
  <<"<", "e", "x", "p", "l", "a", "n", "a", "t", "i", "o", "n", ">", "\n">>

EgDelimiter == <<"<", "e", "g", ">">>

SenseDelimiter == <<"-", "-", "-", "-">>

\* The explanation text followed by the example texts of a sense block.
senseBlocks(entryText) ==
  SplitOnLine(ReplaceFirst(entryText, ExplanationMarker, <<>>), EgDelimiter)

\* parseLanguageData on the explanation text, then on each example text.
senseParts(texts) == [k \in DOMAIN texts |-> parseLanguageData(texts[k])]

\* The sense made of the parsed parts, or the first failure among them: the
\* explanation is parsed first, then the examples in order, and the first
\* error thrown ends the call.
senseOf(parsed) ==
  LET failed == {k \in DOMAIN parsed : ~parsed[k].ok}
  IN  IF failed # {}
      THEN [ok |-> FALSE,
            error |-> parsed[CHOOSE k \in failed : \A j \in failed : k <= j].error]
      ELSE [ok |-> TRUE, error |-> "",
            value |-> [explanation |-> parsed[1].value,
                       egs |-> [k \in 1..Len(parsed) - 1 |-> parsed[k + 1].value]]]

parseSense(entryText) == senseOf(senseParts(senseBlocks(entryText)))

(***************************************************************************)
(* entryParser: parseEntry                                                 *)
(***************************************************************************)
\* The value of a digit in a radix up to 16, -1 for any other character.
DigitValue(char) ==
  CASE char = "0" -> 0 [] char = "1" -> 1 [] char = "2" -> 2 [] char = "3" -> 3
    [] char = "4" -> 4 [] char = "5" -> 5 [] char = "6" -> 6 [] char = "7" -> 7
    [] char = "8" -> 8 [] char = "9" -> 9
    [] char \in {"a", "A"} -> 10 [] char \in {"b", "B"} -> 11
    [] char \in {"c", "C"} -> 12 [] char \in {"d", "D"} -> 13
    [] char \in {"e", "E"} -> 14 [] char \in {"f", "F"} -> 15
    [] OTHER -> -1

IsDigitOf(char, radix) == DigitValue(char) >= 0 /\ DigitValue(char) < radix

\* The value of the longest prefix of s made of digits of the radix, read
\* after the value acc; n counts the digits read.
RECURSIVE ReadDigits(_, _, _, _)
ReadDigits(s, radix, acc, n) ==
  IF s # <<>> /\ IsDigitOf(Head(s), radix)
  THEN ReadDigits(Tail(s), radix, acc * radix + DigitValue(Head(s)), n + 1)
  ELSE [value |-> acc, digits |-> n]

\* parseInt(string) with no radix: leading white space is skipped, a sign
\* is read, a 0x prefix selects radix 16, and the digits up to the first
\* character that is no digit are read; NaN when there is no digit.
parseInt(string) ==
  LET t == TrimStart(string)
      negative == t # <<>> /\ Head(t) = "-"
      u == IF t # <<>> /\ Head(t) \in {"-", "+"} THEN Tail(t) ELSE t
      hex == Len(u) >= 2 /\ u[1] = "0" /\ u[2] \in {"x", "X"}
      v == IF hex THEN SubSeq(u, 3, Len(u)) ELSE u
      read == ReadDigits(v, IF hex THEN 16 ELSE 10, 0, 0)
  IN  IF read.digits = 0 THEN [nan |-> TRUE, value |-> 0]
      ELSE [nan |-> FALSE, value |-> IF negative THEN -read.value ELSE read.value]

\* The sense blocks of the body: the lines left by parseTags, joined and
\* split on the delimiter lines.
explanationsTexts(rest) ==
  SplitOnLine(Join(rest, <<"\n">>), SenseDelimiter)

\* parseSense on each sense block, in order.
entrySenses(texts) == [k \in DOMAIN texts |-> parseSense(texts[k])]

\* The entry made of the parsed parts, or the first failure among the
\* senses.
entryOf(id, headwords, tags, senses) ==
  LET failed == {k \in DOMAIN senses : ~senses[k].ok}
  IN  IF failed # {}
      THEN [ok |-> FALSE,
            error |-> senses[CHOOSE k \in failed : \A j \in failed : k <= j].error]
      ELSE [ok |-> TRUE, error |-> "",
            value |-> [id |-> id.value,
                       headwords |-> headwords.value,
                       tags |-> tags.value,
                       senses |-> [k \in DOMAIN senses |-> senses[k].value]]]

\* The steps of parseEntry in order, each ending the call when it throws:
\* the id, the headwords, the tags (which shift the first line off
\* entryLines), the senses of the lines left.
entrySteps(id, headwords, tags) ==
  IF id.nan
  THEN [ok |-> FALSE, error |-> "ParseError: Invalid id"]
  ELSE IF ~headwords.ok
  THEN [ok |-> FALSE, error |-> headwords.error]
  ELSE IF ~tags.ok
  THEN [ok |-> FALSE, error |-> tags.error]
  ELSE entryOf(id, headwords, tags, entrySenses(explanationsTexts(tags.rest)))

parseEntry(entry) ==
  entrySteps(parseInt(entry.id), parseHeadwords(entry.headword),
             parseTags(SplitOn(entry.entry, <<"\n">>)))

(***************************************************************************)
(* Specification of the language-block parser: one call on a block of      *)
(* bounded length.                                                         *)
(***************************************************************************)
\* The lines a block is made of: language lines (plain, with a colon in the
\* text, with a blank text), continuation lines, an empty line, a line
\* whose prefix is no language, one whose prefix is an inherited property
\* name, and a language line behind a space.
LangLines ==
  {<<"e", "n", "g", ":", "a">>,
   <<"y", "u", "e", ":", "b">>,
   <<"e", "n", "g", ":", "e", ":", "f">>,
   <<"e", "n", "g", ":", " ">>,
   <<"c">>,
   <<" ", "d", " ">>,
   <<>>,
   <<"N", "o", ":", "g">>,
   <<"c", "o", "n", "s", "t", "r", "u", "c", "t", "o", "r", ":">>,
   <<" ", "e", "n", "g", ":", "a">>}

\* The blocks of 1..n lines of S.
Blocks(S, n) == UNION {[1..k -> S] : k \in 1..n}

InitLang ==
  /\ pc = "call"
  /\ args \in {[fn |-> "parseLanguageData", lines |-> b,
                text |-> Join(b, <<"\n">>)] : b \in Blocks(LangLines, MaxBlockLines)}
  /\ ret = NoRet

CallParseLanguageData ==
  /\ pc = "call"
  /\ args.fn = "parseLanguageData"
  /\ ret' = parseLanguageData(args.text)
  /\ pc' = "done"
  /\ UNCHANGED args

NextLang == CallParseLanguageData

SpecLang == InitLang /\ [][NextLang]_vars

(***************************************************************************)
(* Specification of the tag-block parser: one call on entry lines whose    *)
(* first line is built from (name:value) groups, or is a malformed line.   *)
(***************************************************************************)
\* Names and values of the groups: plain, padded with spaces, holding
\* parentheses, holding a colon (a value), empty (a value).
TagNames ==
  {<<"p", "o", "s">>, <<"l", "a", "b", "e", "l">>, <<" ", "s", "i", "m", " ">>,
   <<"(", "x", ")">>}

TagValues ==
  {<<"n">>, <<" ", "v", " ">>, <<"a", ":", "b">>, <<"(", "c", ")">>, <<>>}

TagGroups == [name : TagNames, value : TagValues]

\* The text of one group, and of a line of groups.
GroupText(g) == <<"(">> \o g.name \o <<":">> \o g.value \o <<")">>

RECURSIVE GroupsText(_)
GroupsText(gs) ==
  IF gs = <<>> THEN <<>> ELSE GroupText(Head(gs)) \o GroupsText(Tail(gs))

\* First lines that are not made of groups: the marker without its opening
\* parenthesis, behind a space, alone, and followed by a fragment without
\* a colon.
RawTagLines ==
  {<<"p", "o", "s", ":", "n">>,
   <<" ", "(", "p", "o", "s", ":", "n", ")">>,
   <<"(", "p", "o", "s", ":">>,
   <<"(", "p", "o", "s", ":", "n", ")", "(", "l", "b", ")">>}

\* The lines after the first.
RestLines == {<<>>, << <<"e", "n", "g", ":", "a">> >>}

InitTags ==
  /\ pc = "call"
  /\ args \in
       {[fn |-> "parseTags", kind |-> "groups", groups |-> gs,
         entryLines |-> <<GroupsText(gs)>> \o rest] :
           gs \in SeqsUpTo(TagGroups, MaxGroups), rest \in RestLines}
       \cup
       {[fn |-> "parseTags", kind |-> "raw", groups |-> <<>>,
         entryLines |-> <<line>> \o rest] :
           line \in RawTagLines, rest \in RestLines}
       \cup
       {[fn |-> "parseTags", kind |-> "empty", groups |-> <<>>,
         entryLines |-> <<>>]}
  /\ ret = NoRet

CallParseTags ==
  /\ pc = "call"
  /\ args.fn = "parseTags"
  /\ ret' = parseTags(args.entryLines)
  /\ pc' = "done"
  /\ UNCHANGED args

NextTags == CallParseTags

SpecTags == InitTags /\ [][NextTags]_vars

(***************************************************************************)
(* Specification of the headword parser: one call on a bounded headword    *)
(* field.                                                                  *)
(***************************************************************************)
\* The characters of a headword field: an ideograph, a letter, the reading
\* separator, the group separator, a space.
HeadwordChars == {"U+98F2", "a", ":", ",", " "}

InitHeadwords ==
  /\ pc = "call"
  /\ args \in {[fn |-> "parseHeadwords", headword |-> h] :
                 h \in SeqsUpTo(HeadwordChars, MaxHeadwordLen)}
  /\ ret = NoRet

CallParseHeadwords ==
  /\ pc = "call"
  /\ args.fn = "parseHeadwords"
  /\ ret' = parseHeadwords(args.headword)
  /\ pc' = "done"
  /\ UNCHANGED args

NextHeadwords == CallParseHeadwords

SpecHeadwords == InitHeadwords /\ [][NextHeadwords]_vars

(***************************************************************************)
(* Specification of the entry parser: one call on a row whose fields are   *)
(* drawn from small sets and whose body has a bounded number of lines.     *)
(***************************************************************************)
\* Id fields: positive, zero, negative, digits followed by a letter, no
\* digit, and a number behind a space.
IdFields ==
  {<<"1">>, <<"0">>, <<"-", "1">>, <<"1", "a">>, <<"a">>, <<" ", "2">>}

\* Headword fields: a text with a reading, and a field with an empty text.
HeadwordFields ==
  {<<"U+98F2", ":", "j", "a", "m", "2">>, <<":", "j", "a", "m", "2">>}

\* First body lines: two tag lines, and a line without the marker.
TagLines ==
  {<<"(", "p", "o", "s", ":", "n", ")", "(", "l", "a", "b", "e", "l", ":", "w", ")">>,
   <<"(", "p", "o", "s", ":", "v", ")">>,
   <<"(", "l", "a", "b", "e", "l", ":", "w", ")">>}

\* Body lines after the first: the explanation marker, language lines, a
\* continuation line, the two delimiters, a line that ends with the text
\* of the explanation marker, and a line whose prefix is no language.
BodyLines ==
  {<<"<", "e", "x", "p", "l", "a", "n", "a", "t", "i", "o", "n", ">">>,
   <<"e", "n", "g", ":", "a">>,
   <<"y", "u", "e", ":", "b">>,
   <<"c">>,
   <<"-", "-", "-", "-">>,
   <<"<", "e", "g", ">">>,
   <<"y", "u", "e", ":", "<", "e", "x", "p", "l", "a", "n", "a", "t", "i", "o", "n", ">">>,
   <<"N", "o", ":", "g">>}

Init ==
  /\ pc = "call"
  /\ args \in {[fn |-> "parseEntry", id |-> i, headword |-> h, tagLine |-> t,
                bodyLines |-> b,
                entry |-> Join(<<t>> \o b, <<"\n">>)] :
                 i \in IdFields, h \in HeadwordFields, t \in TagLines,
                 b \in SeqsUpTo(BodyLines, MaxBodyLines)}
  /\ ret = NoRet

CallParseEntry ==
  /\ pc = "call"
  /\ args.fn = "parseEntry"
  /\ ret' = parseEntry(args)
  /\ pc' = "done"
  /\ UNCHANGED args

Next == CallParseEntry

Spec == Init /\ [][Next]_vars

(***************************************************************************)
(* Properties of parseCantoneseReadings.                                   *)
(***************************************************************************)
AlignDone == pc = "done" /\ args.fn = "parseCantoneseReadings"

textTokens == splitString(args.rawText)

readingTokens == splitString(args.readings)

\* The text fields of a pair list, in order.
TextsOf(pairs) == [k \in DOMAIN pairs |-> pairs[k].text]

\* The non-empty reading fields of a pair list, in order.
RECURSIVE NonEmptyReadings(_)
NonEmptyReadings(pairs) ==
  IF pairs = <<>> THEN <<>>
  ELSE IF Head(pairs).reading # <<>>
       THEN <<Head(pairs).reading>> \o NonEmptyReadings(Tail(pairs))
       ELSE NonEmptyReadings(Tail(pairs))

\* The tokens of a token list that hold a letter or a digit, in order.
RECURSIVE AlphanumericTokens(_)
AlphanumericTokens(toks) ==
  IF toks = <<>> THEN <<>>
  ELSE IF isJyuutping(Head(toks))
       THEN <<Head(toks)>> \o AlphanumericTokens(Tail(toks))
       ELSE AlphanumericTokens(Tail(toks))

\* C1: an accepted call returns one pair per text token, and the text
\* fields of the pairs, in order, are the text tokens.
C1_TextCoverage ==
  (AlignDone /\ ret.ok) => TextsOf(ret.value) = textTokens

\* An accepted call with a paired token followed by a token given an empty
\* reading.
C1_Witness ==
  /\ AlignDone /\ ret.ok
  /\ Len(ret.value) = 2
  /\ ret.value[1].reading # <<>>
  /\ ret.value[2].reading = <<>>

\* C2 as stated: the non-empty reading fields of an accepted call, in
\* order, are the whole reading token sequence.
C2_ReadingsReproduced ==
  (AlignDone /\ ret.ok) => NonEmptyReadings(ret.value) = readingTokens

\* C2 amended: the non-empty reading fields of an accepted call, in order,
\* are the alphanumeric tokens of the reading token sequence.
C2_AlphanumericReadingsReproduced ==
  (AlignDone /\ ret.ok) =>
     NonEmptyReadings(ret.value) = AlphanumericTokens(readingTokens)

\* An accepted call whose readings hold an alphanumeric token, emitted, and
\* a token that is not alphanumeric, consumed without being emitted.
C2_Witness ==
  /\ AlignDone /\ ret.ok
  /\ NonEmptyReadings(ret.value) # <<>>
  /\ NonEmptyReadings(ret.value) # readingTokens

\* C3: a call returns only with the reading cursor at the end of the reading
\* tokens; with more reading tokens than text tokens, or with a reading
\* token left when the loop ends, it fails and returns no pairs.
C3_UnconsumedReadingsFail ==
  AlignDone =>
     /\ ret.ok => ret.readingIndex = Len(readingTokens)
     /\ Len(readingTokens) > Len(textTokens) => ~ret.ok
     /\ ret.readingIndex < Len(readingTokens) => (~ret.ok /\ ret.value = <<>>)

\* A call whose loop ran to its end with every text token consumed, and
\* that failed on the reading token left over.
C3_Witness ==
  /\ AlignDone /\ ~ret.ok
  /\ ret.error = "Unexpected reading"
  /\ ret.textIndex = Len(textTokens)
  /\ ret.readingIndex < Len(readingTokens)

(***************************************************************************)
(* Properties of parseLanguageData.                                        *)
(***************************************************************************)
LangDone == pc = "done" /\ args.fn = "parseLanguageData"

\* The text of a line before its first colon, and after it.
PrefixOf(line) == SubSeq(line, 1, IndexOf(line, <<":">>) - 1)

TextOf(line) == SubSeq(line, IndexOf(line, <<":">>) + 1, Len(line))

\* A language line: it has a colon and its prefix is one of the 14 codes.
IsLanguageLine(line) ==
  Includes(line, <<":">>) /\ PrefixOf(line) \in LanguageCodes

\* A line with a colon whose prefix is none of the 14 codes.
IsUnrecognizedLine(line) ==
  Includes(line, <<":">>) /\ PrefixOf(line) \notin LanguageCodes

\* The trimmed texts of the language lines of one code, in line order.
RECURSIVE TextsOfCode(_, _)
TextsOfCode(lines, code) ==
  IF lines = <<>> THEN <<>>
  ELSE IF IsLanguageLine(Head(lines)) /\ PrefixOf(Head(lines)) = code
       THEN <<Trim(TextOf(Head(lines)))>> \o TextsOfCode(Tail(lines), code)
       ELSE TextsOfCode(Tail(lines), code)

\* The segment list of a code in a result, empty when the key is absent.
SegmentsOf(ld, code) == IF code \in DOMAIN ld THEN ld[code] ELSE <<>>

\* C4: in a block made only of language lines with a text (one that is not
\* empty once trimmed, as the parser stores it), the segment list of each
\* code is the trimmed texts of the lines of that code, one segment per
\* line, in line order, and never merged.
C4_OneSegmentPerLine ==
  (/\ LangDone
   /\ \A k \in DOMAIN args.lines :
        IsLanguageLine(args.lines[k]) /\ Trim(TextOf(args.lines[k])) # <<>>)
  => /\ ret.ok
     /\ DOMAIN ret.value = {PrefixOf(args.lines[k]) : k \in DOMAIN args.lines}
     /\ \A code \in LanguageCodes :
          SegmentsOf(ret.value, code) = TextsOfCode(args.lines, code)

\* The block eng, yue, eng: two segments for eng, one for yue.
C4_Witness ==
  /\ LangDone /\ ret.ok
  /\ Len(args.lines) = 3
  /\ \A k \in DOMAIN args.lines :
        IsLanguageLine(args.lines[k]) /\ Trim(TextOf(args.lines[k])) # <<>>
  /\ PrefixOf(args.lines[1]) = <<"e", "n", "g">>
  /\ PrefixOf(args.lines[2]) = <<"y", "u", "e">>
  /\ PrefixOf(args.lines[3]) = <<"e", "n", "g">>
  /\ Len(SegmentsOf(ret.value, <<"e", "n", "g">>)) = 2
  /\ Len(SegmentsOf(ret.value, <<"y", "u", "e">>)) = 1

\* C5: a block with a line that has a colon and whose prefix is none of the
\* 14 language codes fails with the ParseError 'Invalid language'.
C5_UnrecognizedCodeFails ==
  (/\ LangDone
   /\ \E k \in DOMAIN args.lines : IsUnrecognizedLine(args.lines[k]))
  => (~ret.ok /\ ret.error = "ParseError: Invalid language")

(***************************************************************************)
(* Properties of parseTags.                                                *)
(***************************************************************************)
TagsDone == pc = "done" /\ args.fn = "parseTags"

\* The first line is made of k >= 1 groups and starts with '(pos:'.
IsTagLine ==
  /\ args.kind = "groups"
  /\ Len(args.groups) >= 1
  /\ StartsWith(args.entryLines[1], PosMarker)

\* C6: a first line of k >= 1 groups starting with '(pos:' gives k tags in
\* group order; a tag's name is the text of its group before the first
\* colon and its value the text after it, parentheses removed and trimmed.
C6_TagsOfGroups ==
  (TagsDone /\ IsTagLine) =>
     /\ ret.ok
     /\ Len(ret.value) = Len(args.groups)
     /\ \A k \in DOMAIN args.groups :
          /\ ret.value[k].name = Trim(StripParens(args.groups[k].name))
          /\ ret.value[k].value = Trim(StripParens(args.groups[k].value))

\* Two groups, the second with a colon in its value, parsed into two tags.
C6_Witness ==
  /\ TagsDone /\ IsTagLine /\ ret.ok
  /\ Len(args.groups) = 2
  /\ args.groups[2].value = <<"a", ":", "b">>
  /\ Len(ret.value) = 2

\* C7: a first line that does not start with '(pos:', and a first line of
\* zero groups, fail with a ParseError; a first line that starts with the
\* marker returns tags, at least one; tags are returned in no other case.
C7_TagsFailures ==
  TagsDone =>
     /\ (args.entryLines # <<>> /\ ~StartsWith(args.entryLines[1], PosMarker))
          => (~ret.ok /\ ret.error = "ParseError: Entry does not start with (pos:)")
     /\ (args.kind = "groups" /\ args.groups = <<>>)
          => (~ret.ok /\ ret.value = <<>>)
     /\ (args.entryLines # <<>> /\ StartsWith(args.entryLines[1], PosMarker))
          => (ret.ok /\ Len(ret.value) >= 1)
     /\ ret.ok => (args.entryLines # <<>> /\ StartsWith(args.entryLines[1], PosMarker))

\* A first line of groups whose first group is not the part of speech,
\* refused.
C7_Witness ==
  /\ TagsDone /\ ~ret.ok
  /\ args.kind = "groups" /\ Len(args.groups) >= 1
  /\ ret.error = "ParseError: Entry does not start with (pos:)"

(***************************************************************************)
(* Properties of parseHeadwords.                                           *)
(***************************************************************************)
HeadwordsDone == pc = "done" /\ args.fn = "parseHeadwords"

\* C9: a headword field with a comma-separated group that has no
\* ':reading' part fails with a ParseError; every returned headword has a
\* non-empty text and at least one reading.
C9_GroupWithoutReadingFails ==
  HeadwordsDone =>
     /\ (\E k \in DOMAIN SplitOn(args.headword, <<",">>) :
           ~Includes(SplitOn(args.headword, <<",">>)[k], <<":">>))
          => (~ret.ok /\ ret.error = "ParseError: Invalid headword")
     /\ ret.ok => \A k \in DOMAIN ret.value :
                     ret.value[k].text # <<>> /\ Len(ret.value[k].readings) >= 1

(***************************************************************************)
(* Properties of parseEntry.                                               *)
(***************************************************************************)
EntryDone == pc = "done" /\ args.fn = "parseEntry"

\* The lines of a body cut at its delimiter lines: one list of lines per
\* block, the delimiter lines left out.
RECURSIVE BlocksOf(_)
BlocksOf(lines) ==
  IF \E k \in DOMAIN lines : lines[k] = SenseDelimiter
  THEN LET k == CHOOSE k \in DOMAIN lines :
                  /\ lines[k] = SenseDelimiter
                  /\ \A j \in 1..k - 1 : lines[j] # SenseDelimiter
       IN  <<SubSeq(lines, 1, k - 1)>> \o BlocksOf(SubSeq(lines, k + 1, Len(lines)))
  ELSE <<lines>>

\* The number of lines of a list equal to a given line.
CountLines(lines, line) == Cardinality({k \in DOMAIN lines : lines[k] = line})

\* C8: a parsed body with n delimiter lines '----' gives n+1 senses, in
\* body order, and the example list of sense i has one element per '<eg>'
\* line of block i.
C8_SensesOfBlocks ==
  (EntryDone /\ ret.ok) =>
     /\ Len(ret.value.senses) = CountLines(args.bodyLines, SenseDelimiter) + 1
     /\ \A k \in DOMAIN ret.value.senses :
          Len(ret.value.senses[k].egs) =
             CountLines(BlocksOf(args.bodyLines)[k], EgDelimiter)

\* The id field is the decimal text of an integer >= 1.
IsPositiveDecimal(string) ==
  /\ string # <<>>
  /\ \A k \in DOMAIN string : string[k] \in Digits
  /\ \E k \in DOMAIN string : string[k] # "0"

\* C10: a row whose id field is not the decimal text of an integer >= 1
\* (zero, negative, non-numeric, digits followed by other characters) is
\* refused, no entry being returned; a returned entry has id >= 1.
C10_IdIsPositiveInteger ==
  EntryDone =>
     /\ ~IsPositiveDecimal(args.id) => ~ret.ok
     /\ ret.ok => ret.value.id >= 1

\* The tags of a first line taken alone.
TagsOfLine(line) == parseTags(<<line>>)

\* The senses of the lines after the first, taken alone: one outcome of
\* parseSense per block between delimiter lines.
SensesOfLines(lines) == entrySenses(explanationsTexts(lines))

\* A row whose id is a number and whose headword field parses, with the
\* outcomes of its first line parsed as tags and of its remaining lines
\* parsed as senses.
WellFormedRow(tags, senses) ==
  /\ ~parseInt(args.id).nan
  /\ parseHeadwords(args.headword).ok
  /\ tags.ok
  /\ \A k \in DOMAIN senses : senses[k].ok

\* The shape of the outcome of parseEntry, given the tags of the first
\* line alone and the senses of the remaining lines alone.
EntryShape(tags, senses) ==
  /\ ret.ok =>
       /\ Len(ret.value.headwords) >= 1
       /\ Len(ret.value.tags) >= 1
       /\ ret.value.tags[1].name = <<"p", "o", "s">>
       /\ ret.value.tags = tags.value
       /\ ret.value.senses = [k \in DOMAIN senses |-> senses[k].value]
  /\ WellFormedRow(tags, senses) => ret.ok

\* C12: a returned entry has at least one headword and at least one tag,
\* its first tag is named 'pos', its tags are those of the first body line
\* alone and its senses those of the remaining lines alone; a row whose
\* parts parse in this way is returned.
C12_EntryShape ==
  EntryDone =>
     EntryShape(TagsOfLine(args.tagLine), SensesOfLines(args.bodyLines))

\* A returned entry with two tags and two senses, the second sense with an
\* explanation.
C12_Witness ==
  /\ EntryDone /\ ret.ok
  /\ Len(args.bodyLines) = 3
  /\ Len(ret.value.tags) = 2
  /\ Len(ret.value.senses) = 2
  /\ DOMAIN ret.value.senses[2].explanation # {}

(***************************************************************************)
(* csvReader: parseCSVEntries.  The rows read from the file are the input; *)
(* the locals of the function are the state of the loop over them.         *)
(***************************************************************************)
MaxRows == 3

\* The body of a row that has no content.
NoDataMarker ==
  <<"U+672A", "U+6709", "U+5167", "U+5BB9", " ", "N", "O", " ", "D", "A", "T", "A">>

\* The text of the warning field that marks an unreviewed row.
UnreviewedMarker ==
  <<"U+672A", "U+7D93", "U+8986", "U+6838", "U+FF0C", "U+53EF", "U+80FD",
    "U+6709", "U+932F", "U+6F0F", " ",
    "U", "N", "R", "E", "V", "I", "E", "W", "E", "D", " ",
    "E", "N", "T", "R", "Y", " ", "-", " ", "M", "A", "Y", " ",
    "C", "O", "N", "T", "A", "I", "N", " ",
    "E", "R", "R", "O", "R", "S", " ", "O", "R", " ",
    "O", "M", "I", "S", "S", "I", "O", "N", "S">>

\* The value of the public field of a published row.
PublishedMarker == <<"U+5DF2", "U+516C", "U+958B">>

\* The locals before the loop; i counts the rows the loop has taken.
CsvStart ==
  [dictionaryEntries |-> <<>>, unpublishedCount |-> 0, noDataCount |-> 0,
   unreviewedCount |-> 0, errorCount |-> 0, i |-> 0]

\* The first statement of the loop body, for a row without content.
csvSkip(st) == [st EXCEPT !.noDataCount = @ + 1, !.i = @ + 1]

\* The two counters a row with content may advance before it is parsed.
csvCount(st, entry) ==
  [st EXCEPT
     !.unreviewedCount = IF Includes(entry.warning, UnreviewedMarker)
                         THEN @ + 1 ELSE @,
     !.unpublishedCount = IF entry.public # PublishedMarker THEN @ + 1 ELSE @]

\* Mutant: a row that fails to parse is not counted.
csvTryNoCount(st, parsedEntry) ==
  IF parsedEntry.ok
  THEN [st EXCEPT !.dictionaryEntries = Append(@, parsedEntry.value), !.i = @ + 1]
  ELSE [st EXCEPT !.i = @ + 1]

\* The try statement: parsedEntry is the outcome of parseEntry(entry); what
\* it throws is caught, counted and logged, and the loop goes on.
csvTry(st, parsedEntry) ==
  IF parsedEntry.ok
  THEN [st EXCEPT !.dictionaryEntries = Append(@, parsedEntry.value), !.i = @ + 1]
  ELSE [st EXCEPT !.errorCount = @ + 1, !.i = @ + 1]

\* The rows of the model: a published and reviewed row, a row without
\* content, a row whose body has no part of speech, an unreviewed and
\* unpublished row, a row whose parse throws a TypeError, and a row without
\* content whose id is no number.
GoodBody == <<"(", "p", "o", "s", ":", "n", ")", "\n", "y", "u", "e", ":", "b">>

CsvRows ==
  {[id |-> <<"1">>, headword |-> <<"U+98F2", ":", "j", "a", "m", "2">>,
    entry |-> GoodBody, warning |-> <<>>, public |-> PublishedMarker],
   [id |-> <<"2">>, headword |-> <<"U+98F2", ":", "j", "a", "m", "2">>,
    entry |-> NoDataMarker, warning |-> <<>>, public |-> PublishedMarker],
   [id |-> <<"3">>, headword |-> <<"U+98F2", ":", "j", "a", "m", "2">>,
    entry |-> <<"(", "l", "a", "b", "e", "l", ":", "w", ")">>,
    warning |-> <<>>, public |-> PublishedMarker],
   [id |-> <<"4">>, headword |-> <<"U+8336", ":", "c", "a", "a", "4">>,
    entry |-> GoodBody, warning |-> <<"!", " ">> \o UnreviewedMarker,
    public |-> <<"U+672A", "U+516C", "U+958B">>],
   [id |-> <<"5">>, headword |-> <<"U+98F2", ":", "j", "a", "m", "2">>,
    entry |-> <<"(", "p", "o", "s", ":", "n", ")", "\n",
                "c", "o", "n", "s", "t", "r", "u", "c", "t", "o", "r", ":", "x">>,
    warning |-> <<>>, public |-> PublishedMarker],
   [id |-> <<"a">>, headword |-> <<>>,
    entry |-> NoDataMarker, warning |-> UnreviewedMarker, public |-> <<>>]}

InitCSV ==
  /\ pc = "loop"
  /\ args \in {[fn |-> "parseCSVEntries", data |-> rows] :
                 rows \in SeqsUpTo(CsvRows, MaxRows)}
  /\ ret = CsvStart

\* An iteration of the loop on a row without content: counted and skipped.
SkipNoDataRow ==
  /\ pc = "loop"
  /\ args.fn = "parseCSVEntries"
  /\ ret.i < Len(args.data)
  /\ args.data[ret.i + 1].entry = NoDataMarker
  /\ ret' = csvSkip(ret)
  /\ UNCHANGED <<pc, args>>

\* An iteration of the loop on a row with content.
ParseRow ==
  /\ pc = "loop"
  /\ args.fn = "parseCSVEntries"
  /\ ret.i < Len(args.data)
  /\ args.data[ret.i + 1].entry # NoDataMarker
  /\ ret' = csvTry(csvCount(ret, args.data[ret.i + 1]),
                   parseEntry(args.data[ret.i + 1]))
  /\ UNCHANGED <<pc, args>>

\* The end of the loop: dictionaryEntries is returned.
ReturnEntries ==
  /\ pc = "loop"
  /\ args.fn = "parseCSVEntries"
  /\ ret.i = Len(args.data)
  /\ pc' = "done"
  /\ UNCHANGED <<args, ret>>

NextCSV == SkipNoDataRow \/ ParseRow \/ ReturnEntries

SpecCSV == InitCSV /\ [][NextCSV]_vars

(***************************************************************************)
(* Properties of parseCSVEntries.                                          *)
(***************************************************************************)
CsvRunning == args.fn = "parseCSVEntries"

\* The rows the loop has taken so far.
RowsTaken == SubSeq(args.data, 1, ret.i)

\* The entry of a row with its outcome, or nothing.
EntryIfParsed(parsedEntry) ==
  IF parsedEntry.ok THEN <<parsedEntry.value>> ELSE <<>>

\* The entries of the rows that have content and parse, in row order.
RECURSIVE ParsedRows(_)
ParsedRows(rows) ==
  IF rows = <<>> THEN <<>>
  ELSE IF Head(rows).entry = NoDataMarker THEN ParsedRows(Tail(rows))
  ELSE EntryIfParsed(parseEntry(Head(rows))) \o ParsedRows(Tail(rows))

\* The number of rows without content, and of rows with content whose
\* parse fails.
NoDataRows(rows) ==
  Cardinality({k \in DOMAIN rows : rows[k].entry = NoDataMarker})

FailedRows(rows) ==
  Cardinality({k \in DOMAIN rows :
                 rows[k].entry # NoDataMarker /\ ~parseEntry(rows[k]).ok})

\* C11: after every row the loop has taken, the entries collected are the
\* parseEntry results of the rows taken that have content and parse, in row
\* order; rows without content are counted as such and not as errors; the
\* three counts add up to the number of rows taken; and the function
\* returns only after taking every row, whatever rows failed.
C11_BatchResults ==
  CsvRunning =>
     /\ ret.dictionaryEntries = ParsedRows(RowsTaken)
     /\ ret.noDataCount = NoDataRows(RowsTaken)
     /\ ret.errorCount = FailedRows(RowsTaken)
     /\ Len(ret.dictionaryEntries) + ret.noDataCount + ret.errorCount = ret.i
     /\ pc = "done" => ret.i = Len(args.data)

\* A batch returned with a row that failed, then a row without content,
\* then an unreviewed and unpublished row that was parsed.
C11_Witness ==
  /\ CsvRunning /\ pc = "done"
  /\ Len(args.data) = 3
  /\ ret.errorCount = 1 /\ ret.noDataCount = 1
  /\ ret.unreviewedCount = 1 /\ ret.unpublishedCount = 1
  /\ Len(ret.dictionaryEntries) = 1
  /\ ret.dictionaryEntries[1].id = 4
  /\ args.data[1].id = <<"3">>

(***************************************************************************)
(* Specification of the tokenizer: one call on a bounded string.           *)
(***************************************************************************)
MaxInputLen == 4

\* The characters of the input: two letters, a digit, a space, a
\* punctuation mark and an ideograph.
SplitChars == {"a", "b", "1", " ", ",", "U+4F60"}

InitSplit ==
  /\ pc = "call"
  /\ args \in {[fn |-> "splitString", input |-> t] :
                 t \in SeqsUpTo(SplitChars, MaxInputLen)}
  /\ ret = NoRet

CallSplitString ==
  /\ pc = "call"
  /\ args.fn = "splitString"
  /\ ret' = [ok |-> TRUE, error |-> "", value |-> splitString(args.input)]
  /\ pc' = "done"
  /\ UNCHANGED args

NextSplit == CallSplitString

SpecSplit == InitSplit /\ [][NextSplit]_vars

(***************************************************************************)
(* Properties of splitString.                                              *)
(***************************************************************************)
SplitDone == pc = "done" /\ args.fn = "splitString"

IsAlphanumeric(char) == char \in Letters \cup Digits

\* The characters of a string that are not white space, in order.
RECURSIVE WithoutWhiteSpace(_)
WithoutWhiteSpace(s) ==
  IF s = <<>> THEN <<>>
  ELSE IF Head(s) \in WhiteSpace THEN WithoutWhiteSpace(Tail(s))
       ELSE <<Head(s)>> \o WithoutWhiteSpace(Tail(s))

\* A letter directly followed by a letter, and a digit directly followed by
\* a letter, somewhere in a string.
HasLetterLetter(s) ==
  \E k \in 1..Len(s) - 1 : s[k] \in Letters /\ s[k + 1] \in Letters

HasDigitLetter(s) ==
  \E k \in 1..Len(s) - 1 : s[k] \in Digits /\ s[k + 1] \in Letters

\* The positions of the input where a token of letters and digits starts:
\* after the start of the input or a character of another class, and, by
\* the forced boundary, at a letter that directly follows a digit.
RunStarts(s) ==
  {k \in DOMAIN s :
     /\ IsAlphanumeric(s[k])
     /\ \/ k = 1
        \/ ~IsAlphanumeric(s[k - 1])
        \/ (s[k - 1] \in Digits /\ s[k] \in Letters)}

\* The positions of the characters that are tokens of their own.
SingleTokens(s) ==
  {k \in DOMAIN s : ~IsAlphanumeric(s[k]) /\ s[k] \notin WhiteSpace}

\* C13 as stated: a letter that directly follows a letter of an open run
\* starts a new token, so no token holds a letter directly followed by a
\* letter.
C13_BoundaryAfterLetter ==
  SplitDone => \A k \in DOMAIN ret.value : ~HasLetterLetter(ret.value[k])

\* C13 amended: the boundary is forced at a letter that directly follows a
\* digit of the open run, and nowhere else inside a run.  The tokens, put
\* together, are the input without its white space; a token is one
\* character that is no letter or digit, or a run of letters and digits in
\* which no letter directly follows a digit; and there is one run per run
\* start, so that letters that follow letters stay in one token.
C13_BoundaryAfterDigit ==
  SplitDone =>
     /\ Join(ret.value, <<>>) = WithoutWhiteSpace(args.input)
     /\ \A k \in DOMAIN ret.value :
          \/ /\ Len(ret.value[k]) = 1
             /\ ~IsAlphanumeric(ret.value[k][1])
          \/ /\ ret.value[k] # <<>>
             /\ \A j \in DOMAIN ret.value[k] : IsAlphanumeric(ret.value[k][j])
             /\ ~HasDigitLetter(ret.value[k])
     /\ Len(ret.value) =
          Cardinality(RunStarts(args.input)) + Cardinality(SingleTokens(args.input))

\* The input 'ab1a': the letters a, b stay in one token with the digit, and
\* the letter after the digit starts the next token.
C13_Witness ==
  /\ SplitDone
  /\ args.input = <<"a", "b", "1", "a">>
  /\ ret.value = << <<"a", "b", "1">>, <<"a">> >>

(***************************************************************************)
(* Specification of the aligner, one loop iteration at a time: the locals  *)
(* of parseCantoneseReadings are the state while the loop runs, and the    *)
(* outcome of the call is the state once it has returned or thrown.        *)
(***************************************************************************)
InitAlignSteps ==
  /\ pc = "loop"
  /\ args \in {[fn |-> "parseCantoneseReadings", rawText |-> t, readings |-> r] :
                 t \in SeqsUpTo(TextChars, MaxTextLen),
                 r \in SeqsUpTo(ReadingChars, MaxReadLen)}
  /\ ret = [i |-> 0, textIndex |-> 0, readingIndex |-> 0,
            resultArray |-> <<>>, thrown |-> FALSE]

\* One iteration of the for loop.
AlignIterate ==
  /\ pc = "loop"
  /\ ~ret.thrown
  /\ ret.i < Max(Len(splitString(args.rawText)), Len(splitString(args.readings)))
  /\ ret' = alignStep(ret, At(splitString(args.rawText), ret.textIndex),
                           At(splitString(args.readings), ret.readingIndex))
  /\ UNCHANGED <<pc, args>>

\* The error thrown by the else branch leaves the function.
AlignThrow ==
  /\ pc = "loop"
  /\ ret.thrown
  /\ ret' = [ok |-> FALSE, error |-> "Unexpected text", value |-> <<>>,
             i |-> ret.i, textIndex |-> ret.textIndex,
             readingIndex |-> ret.readingIndex]
  /\ pc' = "done"
  /\ UNCHANGED args

\* The loop has ended: the check for readings left over, and the return.
AlignReturn ==
  /\ pc = "loop"
  /\ ~ret.thrown
  /\ ~(ret.i < Max(Len(splitString(args.rawText)), Len(splitString(args.readings))))
  /\ ret' = alignFinish(splitString(args.readings), ret)
  /\ pc' = "done"
  /\ UNCHANGED args

NextAlignSteps == AlignIterate \/ AlignThrow \/ AlignReturn

SpecAlignSteps == InitAlignSteps /\ [][NextAlignSteps]_vars

(***************************************************************************)
(* Properties of the loop of parseCantoneseReadings.                       *)
(***************************************************************************)
\* The loop is about to run its body, or to end.
InLoop == pc = "loop" /\ ~ret.thrown

\* Every reading token is consumed and a text token is left.
ReadingsConsumedTextLeft ==
  /\ InLoop
  /\ ret.readingIndex = Len(readingTokens)
  /\ ret.textIndex < Len(textTokens)

\* Every text token is consumed and a reading token is left.
TextConsumedReadingsLeft ==
  /\ InLoop
  /\ ret.textIndex = Len(textTokens)
  /\ ret.readingIndex < Len(readingTokens)

\* The step consumes the text token under the cursor alone and emits it
\* with an empty reading.
ConsumesTextAlone ==
  /\ pc' = "loop"
  /\ ~ret'.thrown
  /\ ret'.textIndex = ret.textIndex + 1
  /\ ret'.readingIndex = ret.readingIndex
  /\ ret'.resultArray =
       Append(ret.resultArray,
              [text |-> textTokens[ret.textIndex + 1], reading |-> <<>>])

\* The step is the failure of the call, or the throw that leads to it.
Fails ==
  \/ pc' = "loop" /\ ret'.thrown
  \/ pc' = "done" /\ ~ret'.ok

\* C14: with every reading token consumed, a step takes the next text
\* token alone, whatever its class, and emits it with an empty reading, and
\* the call then returns its pairs; with every text token consumed and a
\* reading token left, the next step fails, and the call fails.
C14_Asymmetry ==
  /\ [][ReadingsConsumedTextLeft => ConsumesTextAlone]_vars
  /\ [][(InLoop /\ ret.readingIndex = Len(readingTokens) /\ pc' = "done")
          => (ret'.ok /\ ret'.value = ret.resultArray)]_vars
  /\ [][TextConsumedReadingsLeft => Fails]_vars
  /\ [][(pc = "loop" /\ ret.thrown) => (pc' = "done" /\ ~ret'.ok)]_vars

\* A call that returned after pairing an ideograph with the only reading
\* token and emitting a second ideograph with an empty reading.
C14_Witness ==
  /\ pc = "done" /\ ret.ok
  /\ Len(readingTokens) = 1
  /\ Len(ret.value) = 2
  /\ isHanzi(ret.value[2].text)
  /\ ret.value[1].reading = readingTokens[1]
  /\ ret.value[2].reading = <<>>

(***************************************************************************)
(* Properties of the continuation lines of parseLanguageData.              *)
(***************************************************************************)
\* The lines without a colon that directly follow line k, trimmed, in
\* order, up to the next line with a colon.
RECURSIVE ContinuationsOf(_, _)
ContinuationsOf(lines, k) ==
  IF k + 1 \in DOMAIN lines /\ ~Includes(lines[k + 1], <<":">>)
  THEN <<Trim(lines[k + 1])>> \o ContinuationsOf(lines, k + 1)
  ELSE <<>>

\* The running buffer of language line k when it is flushed: its text and
\* its continuation lines, each trimmed, separated by newlines.
BufferOf(lines, k) ==
  Join(<<Trim(TextOf(lines[k]))>> \o ContinuationsOf(lines, k), <<"\n">>)

\* The segments of a code: the trimmed buffers of its language lines, in
\* line order, a line with an empty buffer giving none.
RECURSIVE SegmentsFrom(_, _, _)
SegmentsFrom(lines, code, k) ==
  IF k \notin DOMAIN lines THEN <<>>
  ELSE IF /\ IsLanguageLine(lines[k])
          /\ PrefixOf(lines[k]) = code
          /\ BufferOf(lines, k) # <<>>
       THEN <<Trim(BufferOf(lines, k))>> \o SegmentsFrom(lines, code, k + 1)
       ELSE SegmentsFrom(lines, code, k + 1)

\* C15: in a parsed block, each segment of a language is the trimmed
\* buffer of one language line of that language: the line's text and the
\* continuation lines that follow it, trimmed and joined by newlines.  A
\* continuation line opens no segment and goes to no other language.
C15_ContinuationLines ==
  (LangDone /\ ret.ok) =>
     /\ DOMAIN ret.value \subseteq LanguageCodes
     /\ \A code \in LanguageCodes :
          SegmentsOf(ret.value, code) = SegmentsFrom(args.lines, code, 1)

\* The block 'eng:a', ' d ', 'yue:b': the continuation line is joined,
\* trimmed, to the segment of eng and not to that of yue.
C15_Witness ==
  /\ LangDone /\ ret.ok
  /\ args.lines = << <<"e", "n", "g", ":", "a">>, <<" ", "d", " ">>,
                     <<"y", "u", "e", ":", "b">> >>
  /\ ret.value[<<"e", "n", "g">>] = << <<"a", "\n", "d">> >>
  /\ ret.value[<<"y", "u", "e">>] = << <<"b">> >>

\* C16: every segment of a parsed block is a non-empty string, and every
\* language of the result has at least one segment.
C16_SegmentsNonEmpty ==
  (LangDone /\ ret.ok) =>
     \A code \in DOMAIN ret.value :
        /\ ret.value[code] # <<>>
        /\ \A k \in DOMAIN ret.value[code] : ret.value[code][k] # <<>>

(***************************************************************************)
(* Properties of the pairs of parseCantoneseReadings.                      *)
(***************************************************************************)
\* The pairs pushed so far, or returned.
PairsSoFar ==
  IF pc = "loop" THEN ret.resultArray ELSE ret.value

\* The reading tokens consumed so far.
ReadingsConsumed == SubSeq(readingTokens, 1, ret.readingIndex)

\* A pair with a reading has the text of an ideograph or alphanumeric
\* token and an alphanumeric reading.
PairSound(pair) ==
  pair.reading # <<>> =>
     /\ isHanzi(pair.text) \/ isJyuutping(pair.text)
     /\ isJyuutping(pair.reading)

\* The text token under the cursor is a punctuation mark.
PunctuationUnderCursor ==
  /\ InLoop
  /\ ret.textIndex < Len(textTokens)
  /\ isPunctuation(textTokens[ret.textIndex + 1])

\* The step emits the text token under the cursor with an empty reading
\* and does not throw; the reading cursor stays or moves by one.
EmitsEmptyReading ==
  /\ pc' = "loop"
  /\ ~ret'.thrown
  /\ ret'.textIndex = ret.textIndex + 1
  /\ ret'.readingIndex \in {ret.readingIndex, ret.readingIndex + 1}
  /\ ret'.resultArray =
       Append(ret.resultArray,
              [text |-> textTokens[ret.textIndex + 1], reading |-> <<>>])

\* C17: at every point of the loop and in every result, a pair with a
\* reading has an ideograph or alphanumeric text and an alphanumeric
\* reading, and the readings of the pairs, in order, are the alphanumeric
\* reading tokens consumed, each once; a step on a punctuation text token
\* emits it with an empty reading and does not throw, whatever the reading
\* token under the cursor, or none.
C17_PairReadings ==
  /\ []((pc = "loop" \/ ret.ok) =>
          /\ \A k \in DOMAIN PairsSoFar : PairSound(PairsSoFar[k])
          /\ NonEmptyReadings(PairsSoFar) = AlphanumericTokens(ReadingsConsumed))
  /\ [][PunctuationUnderCursor => EmitsEmptyReading]_vars

\* A call that returned after emitting a punctuation mark, met at an
\* alphanumeric reading token, with an empty reading, and pairing the next
\* text token with that reading token.
C17_Witness ==
  /\ pc = "done" /\ ret.ok
  /\ Len(readingTokens) = 1
  /\ Len(ret.value) = 2
  /\ isPunctuation(ret.value[1].text)
  /\ ret.value[1].reading = <<>>
  /\ ret.value[2].reading = readingTokens[1]

=============================================================================
